---- MODULE Spec2Model ----
(***************************************************************************)
(* A model of the AI voice interview backend: the /generate-questions and  *)
(* /evaluate handlers of app.py, the gateway wrappers of ai_evaluator.py   *)
(* and the interview_results table of init_db.py.                          *)
(*                                                                         *)
(* Text is modelled at two levels.  Strings whose characters decide a      *)
(* branch (emails, job descriptions, gateway output lines) are sequences   *)
(* of one-character strings, and the regular expressions of the code are   *)
(* run over them.  Strings of which only the composition and the length    *)
(* matter (prompts) are sequences of segments [tag, len].                  *)
(***************************************************************************)
EXTENDS Integers, Sequences, FiniteSets, TLC

(***************************************************************************)
(* Characters and Python values                                            *)
(***************************************************************************)

\* Python's None, kept apart from every string (a string is a sequence of
\* one-character strings, and "None" is not one character).
None == <<"None">>

\* Python truthiness of an optional string: None and "" are falsy.
Truthy(x) == x # None /\ x # <<>>

LowerSeq == <<"a", "b", "c", "d", "e", "f", "g", "h", "i", "j", "k", "l", "m",
              "n", "o", "p", "q", "r", "s", "t", "u", "v", "w", "x", "y", "z">>

UpperSeq == <<"A", "B", "C", "D", "E", "F", "G", "H", "I", "J", "K", "L", "M",
              "N", "O", "P", "Q", "R", "S", "T", "U", "V", "W", "X", "Y", "Z">>

Range(s) == {s[i] : i \in 1..Len(s)}

LowerCs == Range(LowerSeq)

UpperCs == Range(UpperSeq)

DigitCs == {"0", "1", "2", "3", "4", "5", "6", "7", "8", "9"}

\* \s of the re module, restricted to the whitespace the inputs use.
SpaceCs == {" ", "\t", "\n"}

\* str.lower(), character by character.
LowerChar(c) ==
    IF c \in UpperCs
    THEN LowerSeq[CHOOSE i \in 1..Len(UpperSeq) : UpperSeq[i] = c]
    ELSE c

lower(s) == [i \in 1..Len(s) |-> LowerChar(s[i])]

(***************************************************************************)
(* Regular expressions: a pattern is a sequence of items [cs, q], cs the   *)
(* set of characters the item accepts and q its quantifier: "one" (x),     *)
(* "opt" (x?) or "star" (x* ).  An alternation a|b is a set of patterns.   *)
(***************************************************************************)

Lit(s) == [i \in 1..Len(s) |-> [cs |-> {s[i]}, q |-> "one"]]

One(cs) == <<[cs |-> cs, q |-> "one"]>>

Opt(cs) == <<[cs |-> cs, q |-> "opt"]>>

Star(cs) == <<[cs |-> cs, q |-> "star"]>>

Plus(cs) == One(cs) \o Star(cs)

\* The positions one item can move to from the positions P of s (a position
\* is the number of characters consumed so far).
ItemEnds(item, s, P) ==
    LET step == {p + 1 : p \in {q \in P : q < Len(s) /\ s[q + 1] \in item.cs}}
        run  == {e \in 0..Len(s) :
                    \E p \in P : p <= e /\ \A j \in (p + 1)..e : s[j] \in item.cs}
    IN CASE item.q = "one"  -> step
         [] item.q = "opt"  -> P \cup step
         [] item.q = "star" -> run

RECURSIVE PatEnds(_, _, _, _)
\* The positions where a match of pat[k..] can end when it starts in P.
PatEnds(pat, k, s, P) ==
    IF k > Len(pat) \/ P = {}
    THEN P
    ELSE PatEnds(pat, k + 1, s, ItemEnds(pat[k], s, P))

\* re.search(a|b|..., s) is not None
re_search(alts, s) ==
    \E pat \in alts : \E i \in 0..Len(s) : PatEnds(pat, 1, s, {i}) # {}

\* re.match("^" pat "$", s) is not None: $ matches at the end of the string
\* and just before a newline that ends it.
re_match_anchored(pat, s) ==
    LET ends == PatEnds(pat, 1, s, {0})
    IN \/ Len(s) \in ends
       \/ Len(s) > 0 /\ s[Len(s)] = "\n" /\ (Len(s) - 1) \in ends

(***************************************************************************)
(* Email validation (app.py)                                               *)
(***************************************************************************)

DISPOSABLE_EMAIL_DOMAINS ==
    { <<"t", "e", "m", "p", "m", "a", "i", "l", ".", "c", "o", "m">>,
      <<"1", "0", "m", "i", "n", "u", "t", "e", "m", "a", "i", "l", ".", "c", "o", "m">>,
      <<"g", "u", "e", "r", "r", "i", "l", "l", "a", "m", "a", "i", "l", ".", "c", "o", "m">>,
      <<"m", "a", "i", "l", "i", "n", "a", "t", "o", "r", ".", "c", "o", "m">>,
      <<"y", "o", "p", "m", "a", "i", "l", ".", "c", "o", "m">>,
      <<"t", "h", "r", "o", "w", "a", "w", "a", "y", "m", "a", "i", "l", ".", "c", "o", "m">>,
      <<"f", "a", "k", "e", "i", "n", "b", "o", "x", ".", "c", "o", "m">>,
      <<"g", "e", "t", "n", "a", "d", "a", ".", "c", "o", "m">>,
      <<"t", "e", "m", "p", "-", "m", "a", "i", "l", ".", "o", "r", "g">>,
      <<"t", "r", "a", "s", "h", "m", "a", "i", "l", ".", "c", "o", "m">> }

ALLOWED_EMAIL_DOMAINS ==
    { <<"g", "m", "a", "i", "l", ".", "c", "o", "m">> }

\* ^[a-zA-Z0-9._%+-]+@[a-zA-Z0-9.-]+\.[a-zA-Z]{2,}$
EmailPattern ==
    Plus(LowerCs \cup UpperCs \cup DigitCs \cup {".", "_", "%", "+", "-"})
    \o Lit(<<"@">>)
    \o Plus(LowerCs \cup UpperCs \cup DigitCs \cup {".", "-"})
    \o Lit(<<".">>)
    \o One(LowerCs \cup UpperCs) \o One(LowerCs \cup UpperCs)
    \o Star(LowerCs \cup UpperCs)

is_valid_email_format(email) == re_match_anchored(EmailPattern, email)

\* email.split("@")[-1]: what follows the last "@", the whole string when
\* there is none.
AfterLastAt(email) ==
    LET ats  == {i \in 1..Len(email) : email[i] = "@"}
        last == IF ats = {} THEN 0 ELSE CHOOSE i \in ats : \A j \in ats : j <= i
    IN SubSeq(email, last + 1, Len(email))

domain_of(email) == lower(AfterLastAt(email))

is_disposable_email(email) == domain_of(email) \in DISPOSABLE_EMAIL_DOMAINS

is_allowed_domain(email) == domain_of(email) \in ALLOWED_EMAIL_DOMAINS

(***************************************************************************)
(* Text helpers                                                            *)
(***************************************************************************)

\* str.strip(): leading and trailing whitespace removed.
strip(s) ==
    LET keep == {i \in 1..Len(s) : s[i] \notin SpaceCs}
    IN IF keep = {}
       THEN <<>>
       ELSE SubSeq(s, CHOOSE i \in keep : \A j \in keep : i <= j,
                      CHOOSE i \in keep : \A j \in keep : j <= i)

\* str.lstrip(chars): the leading characters that are in chars removed.
lstrip(s, chars) ==
    LET keep == {i \in 1..Len(s) : s[i] \notin chars}
    IN IF keep = {}
       THEN <<>>
       ELSE SubSeq(s, CHOOSE i \in keep : \A j \in keep : i <= j, Len(s))

RECURSIVE split_lines(_)
\* str.split("\n")
split_lines(s) ==
    LET nl == {i \in 1..Len(s) : s[i] = "\n"}
    IN IF nl = {}
       THEN <<s>>
       ELSE LET first == CHOOSE i \in nl : \A j \in nl : i <= j
            IN <<SubSeq(s, 1, first - 1)>> \o split_lines(SubSeq(s, first + 1, Len(s)))

\* The marker app.py's truncate_text appends: "\n[Content truncated for processing]"
TruncationMarker ==
    <<"\n", "[", "C", "o", "n", "t", "e", "n", "t", " ", "t", "r", "u",
      "n", "c", "a", "t", "e", "d", " ", "f", "o", "r", " ", "p", "r", "o",
      "c", "e", "s", "s", "i", "n", "g", "]">>

\* truncate_text of app.py on a character string.
truncate_text(text, max_chars) ==
    IF ~Truthy(text)
    THEN <<>>
    ELSE IF Len(text) > max_chars
         THEN SubSeq(text, 1, max_chars) \o TruncationMarker
         ELSE text

(***************************************************************************)
(* Long texts: a sequence of segments [tag, len], len > 0 the number of    *)
(* characters of the segment.                                              *)
(***************************************************************************)

Seg(tag, len) == IF len = 0 THEN <<>> ELSE <<[tag |-> tag, len |-> len]>>

RECURSIVE TextLen(_)
TextLen(t) == IF t = <<>> THEN 0 ELSE Head(t).len + TextLen(Tail(t))

RECURSIVE TakeChars(_, _)
\* text[:n]
TakeChars(t, n) ==
    IF t = <<>> \/ n = 0
    THEN <<>>
    ELSE IF Head(t).len <= n
         THEN <<Head(t)>> \o TakeChars(Tail(t), n - Head(t).len)
         ELSE Seg(Head(t).tag, n)

AppMarkerLen == 35

AiMarkerLen == 34

\* truncate_text of app.py on a long text.
truncate_segments(text, max_chars) ==
    IF text = <<>>
    THEN <<>>
    ELSE IF TextLen(text) > max_chars
         THEN TakeChars(text, max_chars) \o Seg("app_truncated", AppMarkerLen)
         ELSE text

\* truncate_text of ai_evaluator.py.
ai_truncate_text(text, max_chars) ==
    IF text = <<>>
    THEN <<>>
    ELSE IF TextLen(text) > max_chars
         THEN TakeChars(text, max_chars) \o Seg("ai_truncated", AiMarkerLen)
         ELSE text

(***************************************************************************)
(* Score extraction (app.py)                                               *)
(***************************************************************************)

\* The labels of the six metrics of the scorecard, in the order evaluate
\* extracts them.
SCORE_LABELS ==
    <<<<"O", "v", "e", "r", "a", "l", "l", " ", "S", "c", "o", "r", "e">>,
      <<"C", "o", "m", "m", "u", "n", "i", "c", "a", "t", "i", "o", "n">>,
      <<"C", "o", "n", "f", "i", "d", "e", "n", "c", "e">>,
      <<"T", "e", "c", "h", "n", "i", "c", "a", "l", " ", "K", "n", "o",
        "w", "l", "e", "d", "g", "e">>,
      <<"G", "r", "a", "m", "m", "a", "r">>,
      <<"A", "n", "s", "w", "e", "r", " ", "Q", "u", "a", "l", "i", "t",
        "y">>>>

\* label\s*[:\-]?\s* : what precedes the number; re.I is matching the
\* lowercased label against the lowercased text.
ScorePrefix(label) ==
    Lit(lower(label)) \o Star(SpaceCs) \o Opt({":", "-"}) \o Star(SpaceCs)

\* (\d+(\.\d+)?) from position g of s: the ends of the integer part and of
\* the number with a fraction; the greedy match is the longest.
ScoreNumberEnds(s, g) ==
    PatEnds(Plus(DigitCs), 1, s, {g})
    \cup PatEnds(Plus(DigitCs) \o Lit(<<".">>) \o Plus(DigitCs), 1, s, {g})

\* match = re.search(rf"{label}\s*[:\-]?\s*(\d+(\.\d+)?)", text, re.I)
\* return match.group(1) if match else "0"
\* The leftmost match decides; in it the number starts at the one position
\* after the prefix that holds a digit.
extract_score(label, text) ==
    LET s      == lower(text)
        starts == {i \in 0..Len(s) :
                      PatEnds(ScorePrefix(label) \o One(DigitCs), 1, s, {i}) # {}}
    IN IF starts = {}
       THEN <<"0">>
       ELSE LET i    == CHOOSE x \in starts : \A y \in starts : x <= y
                g    == CHOOSE p \in PatEnds(ScorePrefix(label), 1, s, {i}) :
                            p < Len(s) /\ s[p + 1] \in DigitCs
                ends == ScoreNumberEnds(s, g)
                e    == CHOOSE x \in ends : \A y \in ends : y <= x
            IN SubSeq(text, g + 1, e)

\* overall = extract_score("Overall Score", feedback) ... answer_quality =
\* extract_score("Answer Quality", feedback)
extract_scores(feedback) ==
    [k \in 1..Len(SCORE_LABELS) |-> extract_score(SCORE_LABELS[k], feedback)]

(***************************************************************************)
(* Experience level detection (generate_questions)                         *)
(***************************************************************************)

Year == Lit(<<"y", "e", "a", "r">>)

\* a \s*[-]?\s* b \s* year(s)
YearsRange(a, b, sep, word) ==
    Lit(<<a>>) \o Star(SpaceCs) \o Opt(sep) \o Star(SpaceCs) \o Lit(<<b>>)
    \o Star(SpaceCs) \o word

\* fresher|0\s*[-]?\s*1\s*year|0\s*[-]?\s*2\s*years|intern
FresherPattern ==
    { Lit(<<"f", "r", "e", "s", "h", "e", "r">>),
      YearsRange("0", "1", {"-"}, Year),
      YearsRange("0", "2", {"-"}, Year \o Lit(<<"s">>)),
      Lit(<<"i", "n", "t", "e", "r", "n">>) }

\* 2\s*[-+]?\s*3\s*year|3\s*[-+]?\s*5\s*year
MidPattern ==
    { YearsRange("2", "3", {"-", "+"}, Year),
      YearsRange("3", "5", {"-", "+"}, Year) }

\* 5\s*[-+]?\s*7\s*year|senior|lead|architect
SeniorPattern ==
    { YearsRange("5", "7", {"-", "+"}, Year),
      Lit(<<"s", "e", "n", "i", "o", "r">>),
      Lit(<<"l", "e", "a", "d">>),
      Lit(<<"a", "r", "c", "h", "i", "t", "e", "c", "t">>) }

\* Faulty variant: the senior test comes first.
detect_senior_first(job_description) ==
    LET jd_lower == lower(job_description)
    IN IF re_search(SeniorPattern, jd_lower) THEN "senior"
       ELSE IF re_search(FresherPattern, jd_lower) THEN "fresher"
       ELSE IF re_search(MidPattern, jd_lower) THEN "mid"
       ELSE "mid"

\* The if / elif / elif chain over jd_lower; "mid" is the initial value.
detect_experience_level(job_description) ==
    LET jd_lower == lower(job_description)
    IN IF re_search(FresherPattern, jd_lower) THEN "fresher"
       ELSE IF re_search(MidPattern, jd_lower) THEN "mid"
       ELSE IF re_search(SeniorPattern, jd_lower) THEN "senior"
       ELSE "mid"

(***************************************************************************)
(* Prompt construction (generate_questions)                                *)
(***************************************************************************)

PreambleHeadLen == 103

PreambleTaskLen == 179

PreambleJdLabelLen == 19

PreambleTailLen == 1

NotProvidedLen == 12

RulesLen == 487

LevelNameLen(experience_level) ==
    CASE experience_level = "fresher" -> 7
      [] experience_level = "mid"     -> 3
      [] experience_level = "senior"  -> 6

\* prompt = f"""...""": the preamble, with the level name, the resume and
\* the job description (or "Not provided") spliced in.
build_prompt(experience_level, resume_text, job_description) ==
    Seg("preamble_head", PreambleHeadLen)
    \o Seg("level_name_" \o experience_level, LevelNameLen(experience_level))
    \o Seg("preamble_task", PreambleTaskLen)
    \o (IF resume_text # <<>> THEN resume_text ELSE Seg("not_provided", NotProvidedLen))
    \o Seg("preamble_jd_label", PreambleJdLabelLen)
    \o (IF job_description # <<>>
        THEN job_description
        ELSE Seg("not_provided", NotProvidedLen))
    \o Seg("preamble_tail", PreambleTailLen)

\* The level specific instruction block.
level_instruction(experience_level) ==
    IF experience_level = "fresher" THEN Seg("block_fresher", 396)
    ELSE IF experience_level = "mid" THEN Seg("block_mid", 440)
    ELSE Seg("block_senior", 377)

\* final_prompt = prompt + level_instruction + """...OUTPUT RULES..."""
build_final_prompt(prompt, experience_level) ==
    prompt \o level_instruction(experience_level) \o Seg("output_rules", RulesLen)

(***************************************************************************)
(* Usage limit (generate_questions)                                        *)
(***************************************************************************)

InterviewLimit == 2

\* Faulty variant: > for >=.
limit_exceeded_strict(count) == count > InterviewLimit

\* Faulty variant: the check is left out.
limit_exceeded_never(count) == FALSE

\* if count >= 2: "Interview limit exceeded"
limit_exceeded(count) == count >= InterviewLimit

(***************************************************************************)
(* Question extraction (generate_questions)                                *)
(***************************************************************************)

\* "Tell me about yourself and uour Professional background ."
FallbackQuestion1 ==
    <<"T", "e", "l", "l", " ", "m", "e", " ", "a", "b", "o", "u", "t", " ",
      "y", "o", "u", "r", "s", "e", "l", "f", " ", "a", "n", "d", " ", "u",
      "o", "u", "r", " ", "P", "r", "o", "f", "e", "s", "s", "i", "o", "n",
      "a", "l", " ", "b", "a", "c", "k", "g", "r", "o", "u", "n", "d", " ",
      ".">>

\* "Which skills from your resume are most relevant to this role ?"
FallbackQuestion2 ==
    <<"W", "h", "i", "c", "h", " ", "s", "k", "i", "l", "l", "s", " ", "f",
      "r", "o", "m", " ", "y", "o", "u", "r", " ", "r", "e", "s", "u", "m",
      "e", " ", "a", "r", "e", " ", "m", "o", "s", "t", " ", "r", "e", "l",
      "e", "v", "a", "n", "t", " ", "t", "o", " ", "t", "h", "i", "s", " ",
      "r", "o", "l", "e", " ", "?">>

\* "Explain a technical concept you know well."
FallbackQuestion3 ==
    <<"E", "x", "p", "l", "a", "i", "n", " ", "a", " ", "t", "e", "c", "h",
      "n", "i", "c", "a", "l", " ", "c", "o", "n", "c", "e", "p", "t", " ",
      "y", "o", "u", " ", "k", "n", "o", "w", " ", "w", "e", "l", "l", ".">>

\* "Describe a challenging problem you solved."
FallbackQuestion4 ==
    <<"D", "e", "s", "c", "r", "i", "b", "e", " ", "a", " ", "c", "h", "a",
      "l", "l", "e", "n", "g", "i", "n", "g", " ", "p", "r", "o", "b", "l",
      "e", "m", " ", "y", "o", "u", " ", "s", "o", "l", "v", "e", "d", ".">>

\* "What are your strengths and areas for improvement ?"
FallbackQuestion5 ==
    <<"W", "h", "a", "t", " ", "a", "r", "e", " ", "y", "o", "u", "r", " ",
      "s", "t", "r", "e", "n", "g", "t", "h", "s", " ", "a", "n", "d", " ",
      "a", "r", "e", "a", "s", " ", "f", "o", "r", " ", "i", "m", "p", "r",
      "o", "v", "e", "m", "e", "n", "t", " ", "?">>

FALLBACK_QUESTIONS ==
    <<FallbackQuestion1, FallbackQuestion2, FallbackQuestion3,
      FallbackQuestion4, FallbackQuestion5>>

QuestionCount == 5

MinLineLen == 10

MarkerCs == DigitCs \cup {".", "-", ")", " "}

NonEmpty(l) == strip(l) # <<>>

LongEnough(l) == Len(l) > MinLineLen

StripMarkers(l) == strip(lstrip(l, MarkerCs))

RECURSIVE clean_lines(_)
\* lines = [l.strip() for l in questions_text.split("\n") if l.strip()]
clean_lines(raw) ==
    IF raw = <<>>
    THEN <<>>
    ELSE (IF NonEmpty(Head(raw)) THEN <<strip(Head(raw))>> ELSE <<>>)
         \o clean_lines(Tail(raw))

RECURSIVE select_questions(_)
\* questions = [l.lstrip("0123456789.-) ").strip() for l in lines if len(l) > 10]
select_questions(lines) ==
    IF lines = <<>>
    THEN <<>>
    ELSE (IF LongEnough(Head(lines)) THEN <<StripMarkers(Head(lines))>> ELSE <<>>)
         \o select_questions(Tail(lines))

parse_questions(questions_text) ==
    select_questions(clean_lines(split_lines(questions_text)))

\* Faulty variant: the count check is left out.
extract_questions_unchecked(questions_text) == parse_questions(questions_text)

\* if len(questions) != 5: questions = [the five fallback questions]
extract_questions(questions_text) ==
    LET questions == parse_questions(questions_text)
    IN IF Len(questions) # QuestionCount THEN FALLBACK_QUESTIONS ELSE questions

(***************************************************************************)
(* The inputs the handlers are run on                                      *)
(***************************************************************************)

\* 'abc@gmail'
EmailMalformed ==
    <<"a", "b", "c", "@", "g", "m", "a", "i", "l">>

\* '@gmail.com'
EmailNoLocal ==
    <<"@", "g", "m", "a", "i", "l", ".", "c", "o", "m">>

\* 'a@b@gmail.com'
EmailTwoAts ==
    <<"a", "@", "b", "@", "g", "m", "a", "i", "l", ".", "c", "o", "m">>

\* 'a@YopMail.com'
EmailDisposable ==
    <<"a", "@", "Y", "o", "p", "M", "a", "i", "l", ".", "c", "o", "m">>

\* 'a@yahoo.com'
EmailOtherDomain ==
    <<"a", "@", "y", "a", "h", "o", "o", ".", "c", "o", "m">>

\* 'a@gmail.com\n'
EmailNewline ==
    <<"a", "@", "g", "m", "a", "i", "l", ".", "c", "o", "m", "\n">>

\* 'a@gmail.com'
EmailA ==
    <<"a", "@", "g", "m", "a", "i", "l", ".", "c", "o", "m">>

\* 'b@GMAIL.com'
EmailB ==
    <<"b", "@", "G", "M", "A", "I", "L", ".", "c", "o", "m">>

\* 'Fresher, 0-1 year'
JdFresher ==
    <<"F", "r", "e", "s", "h", "e", "r", ",", " ", "0", "-", "1", " ", "y",
      "e", "a", "r">>

\* '3-5 years'
JdMid ==
    <<"3", "-", "5", " ", "y", "e", "a", "r", "s">>

\* 'Lead Architect'
JdSenior ==
    <<"L", "e", "a", "d", " ", "A", "r", "c", "h", "i", "t", "e", "c", "t">>

\* 'Senior intern'
JdSeniorIntern ==
    <<"S", "e", "n", "i", "o", "r", " ", "i", "n", "t", "e", "r", "n">>

\* 'senior, 2 - 3 years'
JdSeniorMid ==
    <<"s", "e", "n", "i", "o", "r", ",", " ", "2", " ", "-", " ", "3", " ",
      "y", "e", "a", "r", "s">>

\* '3 years'
JdPlain ==
    <<"3", " ", "y", "e", "a", "r", "s">>

\* '5+7 YEARS'
JdSeniorYears ==
    <<"5", "+", "7", " ", "Y", "E", "A", "R", "S">>

\* '1. Question one?\n2. Question two?\n3) Question three\n4 - Question four\n5. Question five?'
TextFive ==
    <<"1", ".", " ", "Q", "u", "e", "s", "t", "i", "o", "n", " ", "o", "n",
      "e", "?", "\n", "2", ".", " ", "Q", "u", "e", "s", "t", "i", "o",
      "n", " ", "t", "w", "o", "?", "\n", "3", ")", " ", "Q", "u", "e",
      "s", "t", "i", "o", "n", " ", "t", "h", "r", "e", "e", "\n", "4",
      " ", "-", " ", "Q", "u", "e", "s", "t", "i", "o", "n", " ", "f", "o",
      "u", "r", "\n", "5", ".", " ", "Q", "u", "e", "s", "t", "i", "o",
      "n", " ", "f", "i", "v", "e", "?">>

\* '1. Question one?\n2. Question two?\n3. Question three'
TextThree ==
    <<"1", ".", " ", "Q", "u", "e", "s", "t", "i", "o", "n", " ", "o", "n",
      "e", "?", "\n", "2", ".", " ", "Q", "u", "e", "s", "t", "i", "o",
      "n", " ", "t", "w", "o", "?", "\n", "3", ".", " ", "Q", "u", "e",
      "s", "t", "i", "o", "n", " ", "t", "h", "r", "e", "e">>

\* 'Here are five:\n1. Question one?\n2. Question two?\n3. Question three\n4. Question four\n5. Question five?'
TextSix ==
    <<"H", "e", "r", "e", " ", "a", "r", "e", " ", "f", "i", "v", "e", ":",
      "\n", "1", ".", " ", "Q", "u", "e", "s", "t", "i", "o", "n", " ",
      "o", "n", "e", "?", "\n", "2", ".", " ", "Q", "u", "e", "s", "t",
      "i", "o", "n", " ", "t", "w", "o", "?", "\n", "3", ".", " ", "Q",
      "u", "e", "s", "t", "i", "o", "n", " ", "t", "h", "r", "e", "e",
      "\n", "4", ".", " ", "Q", "u", "e", "s", "t", "i", "o", "n", " ",
      "f", "o", "u", "r", "\n", "5", ".", " ", "Q", "u", "e", "s", "t",
      "i", "o", "n", " ", "f", "i", "v", "e", "?">>

\* '1. Question one?\n\n2. Question two?\n  3. Question three  \nThanks!\n4. Question four\n5. Question five?'
TextNoise ==
    <<"1", ".", " ", "Q", "u", "e", "s", "t", "i", "o", "n", " ", "o", "n",
      "e", "?", "\n", "\n", "2", ".", " ", "Q", "u", "e", "s", "t", "i",
      "o", "n", " ", "t", "w", "o", "?", "\n", " ", " ", "3", ".", " ",
      "Q", "u", "e", "s", "t", "i", "o", "n", " ", "t", "h", "r", "e", "e",
      " ", " ", "\n", "T", "h", "a", "n", "k", "s", "!", "\n", "4", ".",
      " ", "Q", "u", "e", "s", "t", "i", "o", "n", " ", "f", "o", "u", "r",
      "\n", "5", ".", " ", "Q", "u", "e", "s", "t", "i", "o", "n", " ",
      "f", "i", "v", "e", "?">>

\* '1. Question one?\n2. Question two?\n3. Question three\n4. Question four\n5. abcdefgh'
TextShort ==
    <<"1", ".", " ", "Q", "u", "e", "s", "t", "i", "o", "n", " ", "o", "n",
      "e", "?", "\n", "2", ".", " ", "Q", "u", "e", "s", "t", "i", "o",
      "n", " ", "t", "w", "o", "?", "\n", "3", ".", " ", "Q", "u", "e",
      "s", "t", "i", "o", "n", " ", "t", "h", "r", "e", "e", "\n", "4",
      ".", " ", "Q", "u", "e", "s", "t", "i", "o", "n", " ", "f", "o", "u",
      "r", "\n", "5", ".", " ", "a", "b", "c", "d", "e", "f", "g", "h">>

\* '1. Question one?\n2. Question two?\n3. Question three\n4. Question four\n(5) Question five?'
TextParen ==
    <<"1", ".", " ", "Q", "u", "e", "s", "t", "i", "o", "n", " ", "o", "n",
      "e", "?", "\n", "2", ".", " ", "Q", "u", "e", "s", "t", "i", "o",
      "n", " ", "t", "w", "o", "?", "\n", "3", ".", " ", "Q", "u", "e",
      "s", "t", "i", "o", "n", " ", "t", "h", "r", "e", "e", "\n", "4",
      ".", " ", "Q", "u", "e", "s", "t", "i", "o", "n", " ", "f", "o", "u",
      "r", "\n", "(", "5", ")", " ", "Q", "u", "e", "s", "t", "i", "o",
      "n", " ", "f", "i", "v", "e", "?">>

\* 'Overall Score: 7.5/10\nCommunication - 8\nSummary\nGood answers.'
FeedbackScored ==
    <<"O", "v", "e", "r", "a", "l", "l", " ", "S", "c", "o", "r", "e", ":",
      " ", "7", ".", "5", "/", "1", "0", "\n", "C", "o", "m", "m", "u",
      "n", "i", "c", "a", "t", "i", "o", "n", " ", "-", " ", "8", "\n",
      "S", "u", "m", "m", "a", "r", "y", "\n", "G", "o", "o", "d", " ",
      "a", "n", "s", "w", "e", "r", "s", ".">>

\* 'Grammar: n/a\nconfidence 6\nGood answers.'
FeedbackSparse ==
    <<"G", "r", "a", "m", "m", "a", "r", ":", " ", "n", "/", "a", "\n",
      "c", "o", "n", "f", "i", "d", "e", "n", "c", "e", " ", "6", "\n",
      "G", "o", "o", "d", " ", "a", "n", "s", "w", "e", "r", "s", ".">>

CandidateName == <<"A", "n", "n">>

(***************************************************************************)
(* State                                                                   *)
(***************************************************************************)

VARIABLES
    interview_results,  \* the interview_results table, in insertion order
    EMAIL_LOCK,         \* 0 when free, else the client whose request holds it
    client              \* per client: the request it has in flight, if any

vars == <<interview_results, EMAIL_LOCK, client>>

\* Concurrent HTTP clients (each has at most one request in flight).
NumClients == 2

\* Requests stop arriving once the table holds this many rows.
MaxRows == 4

Clients == 1..NumClients

NoResponse ==
    [status |-> 0, success |-> FALSE, error |-> "", questions |-> <<>>,
     email_sent |-> FALSE, evaluation |-> None]

\* jsonify({"success": False, "error": error}), status
ErrorResponse(status, error) ==
    [NoResponse EXCEPT !.status = status, !.error = error]

\* jsonify({"success": True, "questions": questions})
QuestionsResponse(questions) ==
    [NoResponse EXCEPT !.status = 200, !.success = TRUE, !.questions = questions]

\* jsonify({"success": True, "email_sent": email_sent,
\*          "evaluation": {"raw_feedback": feedback}})
EvaluationResponse(email_sent, feedback) ==
    [NoResponse EXCEPT !.status = 200, !.success = TRUE,
                       !.email_sent = email_sent, !.evaluation = feedback]

\* What a client remembers of its last generate-questions request: the
\* email, whether questions came back, and the count the limit check read.
NoSession == [email |-> None, ok |-> FALSE, seen |-> -1]

\* A client with no request in flight.
Idle(last_gen) ==
    [pc |-> "idle", kind |-> "none", email |-> None, name |-> None,
     resume_file |-> FALSE, gw_reply |-> <<>>, attempted |-> FALSE,
     job_description |-> <<>>, experience_level |-> "", count |-> -1,
     gw_prompt |-> <<>>, gw_calls |-> 0,
     gw_failed |-> FALSE, feedback |-> <<>>, scores |-> <<>>,
     email_sent |-> FALSE,
     transmitted |-> FALSE, inserted |-> FALSE, session |-> NoSession,
     response |-> NoResponse, last_gen |-> last_gen]

\* Faulty variant: the handler swallows the exception and answers with the
\* fallback questions.
gateway_failure_swallowed(req) ==
    [req EXCEPT !.pc = "done", !.gw_failed = TRUE,
                !.response = QuestionsResponse(FALLBACK_QUESTIONS),
                !.job_description = <<>>, !.experience_level = "",
                !.gw_prompt = <<>>, !.feedback = <<>>, !.scores = <<>>,
                !.session = NoSession]

\* The gateway wrappers log the exception and raise it again; the handler's
\* except clause answers {"success": False, "error": str(e)}, 500.
gateway_failure(req) ==
    [req EXCEPT !.pc = "done", !.gw_failed = TRUE,
                !.response = ErrorResponse(500, "gateway error"),
                !.job_description = <<>>, !.experience_level = "",
                !.gw_prompt = <<>>, !.feedback = <<>>, !.scores = <<>>,
                !.session = NoSession]

\* The handler returns: the response goes out and its locals are gone.
Answer(req, response) ==
    [req EXCEPT !.pc = "done", !.response = response,
                !.job_description = <<>>, !.experience_level = "",
                !.gw_prompt = <<>>, !.feedback = <<>>, !.scores = <<>>,
                !.session = NoSession]

Init ==
    /\ interview_results = <<>>
    /\ EMAIL_LOCK = 0
    /\ client = [c \in Clients |-> Idle(NoSession)]

\* Faulty variant: the WHERE clause compares the wrong column, and no row
\* matches.
CountRowsWrongColumn(email) ==
    Cardinality({i \in 1..Len(interview_results) : interview_results[i].name = email})

\* SELECT COUNT(*) FROM interview_results WHERE email=?
CountRows(email) ==
    Cardinality({i \in 1..Len(interview_results) : interview_results[i].email = email})

\* Evaluate requests in flight that have not reached the insert yet.
PendingEvaluations ==
    Cardinality({c \in Clients : client[c].kind = "evaluate" /\ client[c].pc # "done"})

(***************************************************************************)
(* POST /generate-questions                                                *)
(***************************************************************************)

\* Faulty variant: the whitelist check is missing.
validation_error_any_domain(user_email, resume_file) ==
    IF ~Truthy(user_email)
    THEN ErrorResponse(400, "Email is required to start the interview.")
    ELSE IF ~is_valid_email_format(user_email)
    THEN ErrorResponse(400, "Please enter a valid email address.")
    ELSE IF is_disposable_email(user_email)
    THEN ErrorResponse(400, "Temporary or disposable email addresses are not allowed.")
    ELSE IF ~resume_file
    THEN ErrorResponse(400, "Resume file missing ")
    ELSE NoResponse

\* The block before the limit check: validation, resume and job
\* description capping, level detection and prompt construction.  The
\* result is the error response of the first failing check, or none.
validation_error(user_email, resume_file) ==
    IF ~Truthy(user_email)
    THEN ErrorResponse(400, "Email is required to start the interview.")
    ELSE IF ~is_valid_email_format(user_email)
    THEN ErrorResponse(400, "Please enter a valid email address.")
    ELSE IF is_disposable_email(user_email)
    THEN ErrorResponse(400, "Temporary or disposable email addresses are not allowed.")
    ELSE IF ~is_allowed_domain(user_email)
    THEN ErrorResponse(403, "Only Gmail accounts are allowed to start the interview.")
    ELSE IF ~resume_file
    THEN ErrorResponse(400, "Resume file missing ")
    ELSE NoResponse

ResumeCap == 3000

JobDescriptionCap == 2000

QuestionPromptCap == 3500

\* The prompt generate_questions passes to generate_interview_questions.
gateway_argument(prompt, final_prompt) == prompt

\* The user message generate_interview_questions sends.
question_request(prompt) == ai_truncate_text(prompt, QuestionPromptCap)

\* A request arrives and runs up to the gateway call (or to an early return).
GenStart(c, In) ==
    /\ client[c].pc = "idle"
    /\ \E user_email \in In.gen_emails, resume_file \in BOOLEAN,
          resume_len \in In.resume_lens, jd \in In.job_descriptions,
          jd_padding \in In.jd_paddings :
        \* The job description is jd followed by jd_padding characters that
        \* take part in no match of the level patterns (nor does the
        \* truncation marker): the level is detected on jd, the prompt
        \* holds the whole of it, capped.
        LET rejected        == validation_error(user_email, resume_file)
            resume_text     == truncate_segments(Seg("resume", resume_len), ResumeCap)
            job_description == truncate_text(jd, JobDescriptionCap)
            jd_text         == truncate_segments(
                                   Seg("job_description", Len(jd) + jd_padding),
                                   JobDescriptionCap)
            level           == detect_experience_level(job_description)
            prompt          == build_prompt(level, resume_text, jd_text)
            final_prompt    == build_final_prompt(prompt, level)
            count           == CountRows(user_email)
            req             == [client[c] EXCEPT !.kind = "generate", !.email = user_email,
                                                 !.resume_file = resume_file]
        IN client' = [client EXCEPT ![c] =
             IF rejected # NoResponse
             THEN Answer(req, rejected)
             ELSE IF limit_exceeded(count)
             THEN Answer([req EXCEPT !.count = count], ErrorResponse(403,
                      "Interview limit exceeded . Please get subscription to continue."))
             ELSE [req EXCEPT !.pc = "gen_call", !.count = count,
                              !.job_description = job_description,
                              !.experience_level = level,
                              !.gw_prompt = question_request(
                                                gateway_argument(prompt, final_prompt)),
                              !.gw_calls = @ + 1]]
    /\ UNCHANGED <<interview_results, EMAIL_LOCK>>

\* The gateway call returns: it raises (the handler answers 500) or it
\* returns text, from which the questions are extracted.
GenGateway(c, In) ==
    /\ client[c].pc = "gen_call"
    /\ \/ client' = [client EXCEPT ![c] =
             gateway_failure(@)]
       \/ \E content \in In.question_texts :
            client' = [client EXCEPT ![c] =
             Answer([@ EXCEPT !.gw_reply = content],
                    QuestionsResponse(extract_questions(strip(content))))]
    /\ UNCHANGED <<interview_results, EMAIL_LOCK>>

(***************************************************************************)
(* POST /evaluate                                                          *)
(***************************************************************************)

TranscriptCap == 6000

EvaluationPromptCap == 6000

EvalHeadLen == 119

EvalTailLen == 305

\* prompt = f"""...Transcript:\n{transcript}\n\nProvide:...""", the
\* transcript capped by app.py's truncate_text.
build_evaluation_prompt(transcript_len) ==
    Seg("eval_head", EvalHeadLen)
    \o truncate_segments(Seg("transcript", transcript_len), TranscriptCap)
    \o Seg("eval_tail", EvalTailLen)

\* The user message evaluate_interview sends.
evaluation_request(prompt) == ai_truncate_text(prompt, EvaluationPromptCap)

\* Whether this evaluate request is the one evaluate of a session of its
\* client: it follows the client's generate-questions request for the same
\* email.
SessionOf(c, email) ==
    IF client[c].last_gen.email = email /\ Truthy(email)
    THEN client[c].last_gen
    ELSE NoSession

\* A request arrives and runs up to the gateway call.
EvalStart(c, In) ==
    /\ client[c].pc = "idle"
    /\ Len(interview_results) + PendingEvaluations < MaxRows
    /\ \E email \in In.eval_emails, name \in In.names,
          transcript_len \in In.transcript_lens :
        client' = [client EXCEPT ![c] =
            [@ EXCEPT !.pc = "eval_call", !.kind = "evaluate",
                      !.email = email, !.name = name,
                      !.session = SessionOf(c, email),
                      !.last_gen = NoSession,
                      !.gw_prompt = evaluation_request(
                                        build_evaluation_prompt(transcript_len)),
                      !.gw_calls = @ + 1]]
    /\ UNCHANGED <<interview_results, EMAIL_LOCK>>

\* if email and feedback:
wants_scorecard(email, feedback) == Truthy(email) /\ Truthy(feedback)

\* The gateway call returns: it raises (the handler answers 500), or it
\* returns the feedback; with an email and a feedback the handler goes on
\* to send the scorecard, otherwise it answers at once.
EvalGateway(c, In) ==
    /\ client[c].pc = "eval_call"
    /\ \/ client' = [client EXCEPT ![c] =
             gateway_failure(@)]
       \/ \E content \in In.feedback_texts :
            LET feedback == strip(content)
            IN client' = [client EXCEPT ![c] =
                 IF wants_scorecard(client[c].email, feedback)
                 THEN [@ EXCEPT !.pc = "email_wait", !.feedback = feedback,
                                !.scores = extract_scores(feedback),
                                !.gw_reply = content]
                 ELSE Answer([@ EXCEPT !.gw_reply = content],
                             EvaluationResponse(FALSE, feedback))]
    /\ UNCHANGED <<interview_results, EMAIL_LOCK>>

\* Faulty variant: acquire never waits.
lock_always_free(lock) == TRUE

\* threading.Lock.acquire: succeeds only when the lock is free.
lock_free(lock) == lock = 0

\* send_email_safely: with EMAIL_LOCK:
EmailAcquire(c) ==
    /\ client[c].pc = "email_wait"
    /\ lock_free(EMAIL_LOCK)
    /\ EMAIL_LOCK' = c
    /\ client' = [client EXCEPT ![c] =
         [@ EXCEPT !.pc = "smtp_connect", !.attempted = TRUE]]
    /\ UNCHANGED interview_results

\* One step of the SMTP session: it succeeds and the session moves on, or
\* it raises and send_email_safely's except clause makes the result False.
SmtpStep(c, at, next) ==
    /\ client[c].pc = at
    /\ \/ client' = [client EXCEPT ![c] =
             [@ EXCEPT !.pc = next,
                       !.transmitted = (at = "smtp_send"),
                       !.email_sent = (at = "smtp_send")]]
       \/ client' = [client EXCEPT ![c] =
             [@ EXCEPT !.pc = "email_exit", !.email_sent = FALSE]]
    /\ UNCHANGED <<interview_results, EMAIL_LOCK>>

\* smtplib.SMTP(...), ehlo, starttls, ehlo
SmtpConnect(c) == SmtpStep(c, "smtp_connect", "smtp_login")

\* smtp.login(...)
SmtpLogin(c) == SmtpStep(c, "smtp_login", "smtp_send")

\* smtp.send_message(msg)
SmtpSend(c) == SmtpStep(c, "smtp_send", "email_exit")

\* Leaving the with block releases the lock, whatever the result.
EmailRelease(c) ==
    /\ client[c].pc = "email_exit"
    /\ EMAIL_LOCK' = 0
    /\ client' = [client EXCEPT ![c].pc = "db_insert"]
    /\ UNCHANGED interview_results

\* interview_results.name is declared TEXT NOT NULL (so is email, which
\* is truthy here): inserting None raises sqlite3.IntegrityError.
insert_fails(name, email) == name = None \/ email = None

\* INSERT INTO interview_results ...; commit; then the response.  A failed
\* insert is caught by the handler's except clause, which answers 500.
EvalInsert(c) ==
    /\ client[c].pc = "db_insert"
    /\ IF insert_fails(client[c].name, client[c].email)
       THEN /\ client' = [client EXCEPT ![c] =
                 Answer(@, ErrorResponse(500, "NOT NULL constraint failed"))]
            /\ UNCHANGED interview_results
       ELSE /\ interview_results' = Append(interview_results,
                 [email |-> client[c].email, name |-> client[c].name,
                  ok |-> client[c].session.ok, seen |-> client[c].session.seen])
            /\ client' = [client EXCEPT ![c] =
                 Answer([@ EXCEPT !.inserted = TRUE],
                        EvaluationResponse(client[c].email_sent, client[c].feedback))]
    /\ UNCHANGED EMAIL_LOCK

\* The response has gone out: the client is free to send its next request.
\* It remembers its last generate-questions request until it evaluates.
Finish(c) ==
    /\ client[c].pc = "done"
    /\ client' = [client EXCEPT ![c] =
         Idle(IF client[c].kind = "generate"
              THEN [email |-> client[c].email,
                    ok    |-> client[c].response.success,
                    seen  |-> IF client[c].response.success THEN client[c].count ELSE -1]
              ELSE client[c].last_gen)]
    /\ UNCHANGED <<interview_results, EMAIL_LOCK>>

(***************************************************************************)
(* Specifications                                                          *)
(***************************************************************************)

Step(c, In) ==
    \/ GenStart(c, In)
    \/ GenGateway(c, In)
    \/ EvalStart(c, In)
    \/ EvalGateway(c, In)
    \/ EmailAcquire(c)
    \/ SmtpConnect(c)
    \/ SmtpLogin(c)
    \/ SmtpSend(c)
    \/ EmailRelease(c)
    \/ EvalInsert(c)
    \/ Finish(c)

\* The inputs of the concurrent runs: one identity, every step of the
\* handlers taken.
FewInputs ==
    [gen_emails       |-> {EmailA},
     resume_lens      |-> {0},
     job_descriptions |-> {JdSenior},
     jd_paddings      |-> {0},
     question_texts   |-> {TextFive},
     eval_emails      |-> {EmailA},
     names            |-> {CandidateName},
     transcript_lens  |-> {200},
     feedback_texts   |-> {FeedbackScored}]

\* The inputs of the single-client runs: every branch of the handlers taken.
AllInputs ==
    [gen_emails       |-> {None, <<>>, EmailMalformed, EmailNoLocal, EmailTwoAts,
                           EmailDisposable, EmailOtherDomain, EmailNewline,
                           EmailA, EmailB},
     resume_lens      |-> {0, 800, 3400},
     job_descriptions |-> {<<>>, JdFresher, JdMid, JdSenior, JdSeniorIntern,
                           JdSeniorMid, JdPlain, JdSeniorYears},
     jd_paddings      |-> {0, 1990},
     question_texts   |-> {<<>>, TextFive, TextThree, TextSix, TextNoise, TextShort,
                          TextParen},
     eval_emails      |-> {None, EmailA},
     names            |-> {None, CandidateName},
     transcript_lens  |-> {0, 200, 6100},
     feedback_texts   |-> {<<>>, FeedbackScored, FeedbackSparse}]

\* The inputs of the session runs: two identities that pass validation and
\* one that does not.
SessionInputs ==
    [gen_emails       |-> {EmailOtherDomain, EmailA, EmailB},
     resume_lens      |-> {0},
     job_descriptions |-> {JdSenior},
     jd_paddings      |-> {0},
     question_texts   |-> {TextFive},
     eval_emails      |-> {EmailOtherDomain, EmailA, EmailB},
     names            |-> {CandidateName},
     transcript_lens  |-> {200},
     feedback_texts   |-> {FeedbackScored}]

\* Requests of NumClients clients, arriving and interleaving freely.
Next == \E c \in Clients : Step(c, FewInputs)

Spec == Init /\ [][Next]_vars

\* The requests of one client, one after the other, over all the inputs.
NextHandlers == Step(1, AllInputs)

SpecHandlers == Init /\ [][NextHandlers]_vars

\* The evaluate request of a session: it follows the client's
\* generate-questions request and carries the same email.
SessionEvalStart(c, In) ==
    /\ client[c].last_gen # NoSession
    /\ EvalStart(c, In)
    /\ client'[c].email = client[c].last_gen.email

\* The requests of a client whose requests form sessions: a
\* generate-questions request, then at most one evaluate request for the
\* same email.
SessionStep(c, In) ==
    \/ GenStart(c, In)
    \/ GenGateway(c, In)
    \/ SessionEvalStart(c, In)
    \/ EvalGateway(c, In)
    \/ EmailAcquire(c)
    \/ SmtpConnect(c)
    \/ SmtpLogin(c)
    \/ SmtpSend(c)
    \/ EmailRelease(c)
    \/ EvalInsert(c)
    \/ Finish(c)

\* Sessions that do not overlap: one client, one session after the other.
NextSessions == SessionStep(1, SessionInputs)

SpecSessions == Init /\ [][NextSessions]_vars

\* Two concurrent sessions at a time, for the same email.
NextRace == \E c \in {1, 2} : SessionStep(c, FewInputs)

SpecRace == Init /\ [][NextRace]_vars

\* Concurrent evaluate requests of NumClients clients.
NextEmail ==
    \E c \in Clients :
        \/ EvalStart(c, FewInputs)
        \/ EvalGateway(c, FewInputs)
        \/ EmailAcquire(c)
        \/ SmtpConnect(c)
        \/ SmtpLogin(c)
        \/ SmtpSend(c)
        \/ EmailRelease(c)
        \/ EvalInsert(c)
        \/ Finish(c)

SpecEmail == Init /\ [][NextEmail]_vars

(***************************************************************************)
(* Properties                                                              *)
(***************************************************************************)

Generating(c) == client[c].kind = "generate"

Evaluating(c) == client[c].kind = "evaluate"

Answered(c) == client[c].pc = "done"

\* The response of the limit check.
Denied(c) ==
    /\ Generating(c) /\ Answered(c)
    /\ client[c].response =
         ErrorResponse(403, "Interview limit exceeded . Please get subscription to continue.")

\* The preamble of a generate-questions prompt: from its head to its tail.
IsPreamble(t) ==
    /\ Len(t) >= 2
    /\ t[1] = [tag |-> "preamble_head", len |-> PreambleHeadLen]
    /\ t[Len(t)] = [tag |-> "preamble_tail", len |-> PreambleTailLen]

\* C1: in every generate-questions request that has called the gateway, the
\* user prompt handed to the gateway is the common preamble, then the
\* instruction block of the tier classified for the request, then the
\* output rules.
C1_GatewayPromptHasTierBlock ==
    \A c \in Clients :
        Generating(c) /\ client[c].pc = "gen_call" =>
            LET p == client[c].gw_prompt
                n == Len(p)
            IN /\ n >= 4
               /\ IsPreamble(SubSeq(p, 1, n - 2))
               /\ <<p[n - 1]>> = level_instruction(client[c].experience_level)
               /\ p[n] = [tag |-> "output_rules", len |-> RulesLen]

\* The lines of a gateway answer with their enumeration markers stripped.
StrippedLines(text) ==
    {strip(lstrip(strip(l), MarkerCs)) : l \in Range(split_lines(text))}

\* C2: every successful generate-questions response carries exactly 5
\* questions: the fixed fallback list as a whole, or the questions
\* extracted from the gateway's answer and nothing else.
C2_AlwaysFiveQuestions ==
    \A c \in Clients :
        Generating(c) /\ Answered(c) /\ client[c].response.success =>
            LET q == client[c].response.questions
            IN /\ Len(q) = 5
               /\ \/ q = FALLBACK_QUESTIONS
                  \/ /\ \A i \in 1..5 : q[i] \in StrippedLines(client[c].gw_reply)
                     /\ \A i \in 1..5 : q[i] \notin Range(FALLBACK_QUESTIONS)

\* C2, its case: a gateway answer of three questions was replaced by the
\* fallback list.
C2_FallbackReached ==
    \E c \in Clients :
        /\ Generating(c) /\ Answered(c) /\ client[c].response.success
        /\ client[c].gw_reply = TextThree
        /\ client[c].response.questions = FALLBACK_QUESTIONS

\* C3: a generate-questions request is denied exactly when the count it
\* read is >= 2, a request that read 0 or 1 goes on to the gateway, and a
\* request calls the gateway only after it read a count below 2.  The count
\* read is the number of rows of the submitted email.
C3_DeniedIffCountAtLeastTwo ==
    \A c \in Clients :
        Generating(c) =>
            /\ client[c].gw_calls > 0 => client[c].count \in {0, 1}
            /\ client[c].count \in {0, 1} => client[c].gw_calls = 1 /\ ~Denied(c)
            /\ client[c].count >= 2 => Denied(c) /\ client[c].gw_calls = 0
            /\ Denied(c) => client[c].count >= 2
            /\ client[c].count >= 0 => client[c].count = CountRows(client[c].email)

\* C3, its case: a request that read a count of 2 was denied.
C3_DeniedAtTwo ==
    \E c \in Clients : Denied(c) /\ client[c].count = 2 /\ client[c].gw_calls = 0

\* The emails that hold rows.
RowEmails == {interview_results[i].email : i \in 1..Len(interview_results)}

\* The rows of an email, in insertion order.
RowsOf(email) ==
    SelectSeq(interview_results, LAMBDA row : row.email = email)

\* Every row of the email was inserted by the evaluate request of a session
\* whose generate-questions request had returned questions.
AfterQuestionsOnly(email) ==
    \A i \in 1..Len(interview_results) :
        interview_results[i].email = email => interview_results[i].ok

\* C4, as stated: when the sessions of an email run one after the other
\* (a generate-questions request, then at most one evaluate request for the
\* email), the email never has more than 2 rows.
C4_SequentialSessionsAtMostTwoRows ==
    \A e \in RowEmails : Len(RowsOf(e)) <= InterviewLimit

\* C4, amended: when the sessions of an email run one after the other and
\* the evaluate request of a session is sent only after the session's
\* generate-questions request returned questions, the email never has more
\* than 2 rows.
C4_SessionsWithQuestionsAtMostTwoRows ==
    \A e \in RowEmails : AfterQuestionsOnly(e) => Len(RowsOf(e)) <= InterviewLimit

\* C4, its case: an email has 2 rows from two sessions, and the
\* generate-questions request of its third session was denied.
C4_ThirdSessionDenied ==
    \E c \in Clients :
        /\ Denied(c)
        /\ Len(RowsOf(client[c].email)) = InterviewLimit
        /\ AfterQuestionsOnly(client[c].email)

\* C5: with two concurrent sessions, every row a session inserts follows a
\* limit check of that session that read a count below 2, and yet the
\* check does not cap the rows at 2: all the check guarantees, when every
\* row of the email comes from a session that got questions, is 2 rows plus
\* one for the session that was in flight beside the inserting one.
C5_CheckPassedButStale ==
    /\ \A i \in 1..Len(interview_results) :
          interview_results[i].ok =>
              interview_results[i].seen \in 0..(InterviewLimit - 1)
    /\ \A e \in RowEmails :
          AfterQuestionsOnly(e) => Len(RowsOf(e)) <= InterviewLimit + 1

\* C5, its case: two sessions of one email both read a count below 2 before
\* either inserted its row (the later row's session read a count that did
\* not include the earlier row), and the email ends with more than 2 rows.
C5_BothPassedThenBothInserted ==
    \E e \in RowEmails :
        LET rows == RowsOf(e)
        IN /\ Len(rows) > InterviewLimit
           /\ AfterQuestionsOnly(e)
           /\ \E j, k \in 1..Len(rows) :
                /\ j < k
                /\ rows[j].seen < InterviewLimit /\ rows[j].seen <= j - 1
                /\ rows[k].seen < InterviewLimit /\ rows[k].seen <= j - 1

\* The sample emails a generate-questions request must be rejected for,
\* labelled by hand: missing, empty, malformed (no top-level domain, no
\* local part, two @ signs), disposable, not whitelisted, and an address
\* whose domain ends with a line feed.
RejectedEmails ==
    {None, <<>>, EmailMalformed, EmailNoLocal, EmailTwoAts, EmailDisposable,
     EmailOtherDomain, EmailNewline}

MustBeRejected(c) ==
    Generating(c) /\ (client[c].email \in RejectedEmails \/ ~client[c].resume_file)

\* C6: a generate-questions request whose email is missing, malformed,
\* disposable or not whitelisted, or whose resume file is missing, never
\* calls the gateway: it has been answered with a client error (400 or 403,
\* success false, an error message, no questions).
C6_RejectedBeforeGateway ==
    \A c \in Clients :
        MustBeRejected(c) =>
            /\ client[c].gw_calls = 0
            /\ ~client[c].gw_failed
            /\ Answered(c)
            /\ client[c].response.status \in {400, 403}
            /\ ~client[c].response.success
            /\ client[c].response.error # ""
            /\ client[c].response.questions = <<>>

\* C6, its case: a request with a well-formed address of a domain that is
\* not whitelisted, and with a resume file, was answered 403.
C6_NonWhitelistedRejected ==
    \E c \in Clients :
        /\ MustBeRejected(c) /\ Answered(c)
        /\ client[c].email = EmailOtherDomain
        /\ client[c].resume_file
        /\ client[c].response.status = 403

\* C7: a request calls the gateway at most once, and a request whose
\* gateway call failed has ended with a failure response (500) that holds
\* no questions and no evaluation, has sent no email and inserted no row.
C7_GatewayFailureIsFinal ==
    \A c \in Clients :
        /\ client[c].gw_calls <= 1
        /\ client[c].gw_failed =>
            /\ Answered(c)
            /\ client[c].response.status = 500
            /\ ~client[c].response.success
            /\ client[c].response.questions = <<>>
            /\ client[c].response.evaluation = None
            /\ ~client[c].response.email_sent
            /\ ~client[c].attempted
            /\ ~client[c].transmitted
            /\ ~client[c].inserted

\* C7, its case: the gateway call of an evaluate request with an email
\* failed, and the request was answered.
C7_EvaluateGatewayFailed ==
    \E c \in Clients :
        /\ Evaluating(c) /\ Answered(c)
        /\ client[c].gw_failed
        /\ client[c].gw_calls = 1
        /\ Truthy(client[c].email)

\* C8, as stated: an evaluate request whose scorecard email failed to send
\* still inserts its row and answers success with email_sent false, and
\* email_sent is true only when the send succeeded.
C8_SendFailureStillSucceeds ==
    \A c \in Clients :
        Evaluating(c) /\ Answered(c) =>
            /\ client[c].attempted /\ ~client[c].transmitted =>
                 /\ client[c].inserted
                 /\ client[c].response.success
                 /\ ~client[c].response.email_sent
            /\ client[c].response.email_sent => client[c].transmitted

\* The steps of send_email_safely inside the SMTP session.
InSmtpSession(c) == client[c].pc \in {"smtp_connect", "smtp_login", "smtp_send"}

\* The steps of send_email_safely inside the with EMAIL_LOCK block.
InLockedBlock(c) == InSmtpSession(c) \/ client[c].pc = "email_exit"

\* C9: at most one evaluate request is inside an SMTP session at any time,
\* and a request holds the lock exactly while it is inside the with block:
\* once its send has succeeded or failed and it has left the block, the
\* lock is not its own any more.
C9_OneSmtpSessionAtATime ==
    /\ Cardinality({c \in Clients : InSmtpSession(c)}) <= 1
    /\ \A c \in Clients : InLockedBlock(c) <=> EMAIL_LOCK = c
    /\ (\A c \in Clients : ~InLockedBlock(c)) => EMAIL_LOCK = 0

\* C9, its case: a request is inside its SMTP session, a second one waits
\* for the lock.
C9_SecondRequestWaits ==
    \E c, d \in Clients :
        /\ c # d
        /\ InSmtpSession(c)
        /\ client[d].pc = "email_wait"

\* The signals each sample job description contains, labelled by hand.
SignalsOf ==
    (<<>>            :> {})
    @@ (JdFresher      :> {"fresher"})
    @@ (JdMid          :> {"mid"})
    @@ (JdSenior       :> {"senior"})
    @@ (JdSeniorIntern :> {"senior", "fresher"})
    @@ (JdSeniorMid    :> {"senior", "mid"})
    @@ (JdPlain        :> {})
    @@ (JdSeniorYears  :> {"senior"})

\* The first of fresher, mid, senior among the signals; mid when none.
FirstSignal(signals) ==
    IF "fresher" \in signals THEN "fresher"
    ELSE IF "mid" \in signals THEN "mid"
    ELSE IF "senior" \in signals THEN "senior"
    ELSE "mid"

\* C10: the experience level a generate-questions request works with is
\* the first of fresher, mid, senior whose signal its job description
\* contains, mid when it contains none; it is one of the three levels and
\* a function of the job description alone.
C10_FirstMatchWins ==
    \A c \in Clients :
        client[c].pc = "gen_call" =>
            /\ client[c].job_description \in DOMAIN SignalsOf
            /\ client[c].experience_level
                 = FirstSignal(SignalsOf[client[c].job_description])
            /\ client[c].experience_level \in {"fresher", "mid", "senior"}

\* C10, its case: a job description with a senior and a fresher signal is
\* classified fresher.
C10_SeniorInternIsFresher ==
    \E c \in Clients :
        /\ client[c].pc = "gen_call"
        /\ client[c].job_description = JdSeniorIntern
        /\ client[c].experience_level = "fresher"

\* The enumeration markers of a numbered list: digits, dots, dashes,
\* parentheses and spaces.
EnumerationMarkers == DigitCs \cup {".", "-", "(", ")", " "}

\* C11, as stated: whenever the questions returned are not the fallback
\* set, each of them is longer than 10 characters and starts with no
\* enumeration marker (digit, dot, dash, parenthesis, space).
C11_QuestionsStrippedAndLong ==
    \A c \in Clients :
        (/\ Generating(c) /\ Answered(c) /\ client[c].response.success
         /\ client[c].response.questions # FALLBACK_QUESTIONS) =>
            \A i \in 1..Len(client[c].response.questions) :
                LET q == client[c].response.questions[i]
                IN /\ Len(q) > 10
                   /\ q[1] \notin EnumerationMarkers

\* The prompt with which a request calls the gateway wrapper was built
\* around capped material and went through the wrapper's cap.
CalledGateway(c) == client[c].pc \in {"gen_call", "eval_call"}

\* The cap the gateway wrapper applies to the prompt of the request.
WrapperCap(c) ==
    IF Generating(c) THEN QuestionPromptCap ELSE EvaluationPromptCap

\* The last part of the prompt the handler builds.
PromptTail(c) ==
    IF Generating(c)
    THEN [tag |-> "preamble_tail", len |-> PreambleTailLen]
    ELSE [tag |-> "eval_tail", len |-> EvalTailLen]

\* C12, as stated: the prompt built around the capped resume, job
\* description and transcript fits within the wrapper's cap, so that the
\* message sent to the gateway is the constructed prompt, whole: the
\* wrapper has cut nothing and the prompt ends with its last part.
C12_PromptFitsWrapperCap ==
    \A c \in Clients :
        CalledGateway(c) =>
            LET p == client[c].gw_prompt
            IN /\ TextLen(p) <= WrapperCap(c)
               /\ \A i \in 1..Len(p) : p[i].tag # "ai_truncated"
               /\ p[Len(p)] = PromptTail(c)

\* An evaluate request between the score extraction and its response.
BuildingScorecard(c) ==
    /\ Evaluating(c)
    /\ client[c].pc \in {"email_wait", "smtp_connect", "smtp_login", "smtp_send",
                         "email_exit", "db_insert"}

\* The six scores of each sample feedback, in the order Overall Score,
\* Communication, Confidence, Technical Knowledge, Grammar, Answer
\* Quality, read off by hand: "0" where the label has no number after it.
LabelledScores ==
    (FeedbackScored :> << <<"7", ".", "5">>, <<"8">>, <<"0">>, <<"0">>, <<"0">>, <<"0">> >>)
    @@ (FeedbackSparse :> << <<"0">>, <<"0">>, <<"6">>, <<"0">>, <<"0">>, <<"0">> >>)

\* Every metric of the scorecard is the number after its own label, "0"
\* when there is none.
ScoresAsLabelled ==
    \A c \in Clients :
        BuildingScorecard(c) =>
            /\ client[c].gw_reply \in DOMAIN LabelledScores
            /\ client[c].scores = LabelledScores[client[c].gw_reply]

\* An evaluate request with an email whose feedback lacks a score has sent
\* (or tried to send) the email, inserted its row and answered success.
MissingScoreStillCompletes ==
    \A c \in Clients :
        (/\ Evaluating(c) /\ Answered(c) /\ ~client[c].gw_failed
         /\ Truthy(client[c].email)
         /\ client[c].gw_reply \in DOMAIN LabelledScores
         /\ <<"0">> \in Range(LabelledScores[client[c].gw_reply])) =>
            /\ client[c].attempted
            /\ client[c].inserted
            /\ client[c].response.success

\* C13, as stated: in evaluate each of the six metrics is extracted from
\* the feedback on its own, a metric whose label and number do not occur is
\* "0", and the request goes on to send the email and insert the row.
C13_MissingScoreIsNoError ==
    ScoresAsLabelled /\ MissingScoreStillCompletes

\* C14, as stated: every evaluate request whose scorecard email was sent
\* has inserted its row and answered success with email_sent true; none
\* ends in a failure response or without a row after the email went out.
C14_SentImpliesPersisted ==
    \A c \in Clients :
        Evaluating(c) /\ Answered(c) /\ client[c].transmitted =>
            /\ client[c].inserted
            /\ client[c].response.success
            /\ client[c].response.email_sent
            /\ client[c].response.status = 200

====
